---- MODULE Spec2Model ----
(***************************************************************************)
(* gitlabber: discovery of a GitLab group tree, include/exclude filtering  *)
(* of that tree, and the concurrent clone/pull of its leaves.              *)
(*                                                                         *)
(* The specifications of the module:                                       *)
(*   SpecSync    GitSyncManager.sync: GitActionCollector + the worker pool *)
(*   SpecFilter  TreeFilter.apply / GitlabTree.filter_tree                 *)
(*   SpecBuild   GitlabTreeBuilder.build_from_gitlab / load_gitlab_tree    *)
(*   SpecLimiter RateLimitedExecutor.acquire called from several threads   *)
(*   SpecUrl     build_project_url / GitlabTree.add_projects               *)
(***************************************************************************)
EXTENDS Naturals, Integers, Sequences, FiniteSets, TLC

(***************************************************************************)
(* Bounds of the model.                                                    *)
(***************************************************************************)
\* nodes below the root of a tree handed to the filter or to the sync step
MaxNodes == 3
\* largest size of the git worker pool (GitSyncManager.concurrency)
MaxWorkers == 2
\* how many times the filter is applied to the same tree
MaxApplies == 2
\* longest include list and longest exclude list
MaxPatterns == 1
\* groups, subgroups and projects of the remote hierarchy
MaxEntities == 3
\* largest API concurrency (GitlabTreeBuilder.api_concurrency)
MaxApiConcurrency == 2
\* API calls of a discovery that fail
MaxErrors == 1
\* largest limit of the rate limiter (max_requests_per_hour)
MaxRequests == 2
\* threads that call RateLimitedExecutor.acquire
MaxCallers == 2
\* calls of acquire by one thread
MaxAcquires == 2
\* the clock stops at this time
MaxTime == 4
\* self.window_seconds, in the time units of the model's clock
window_seconds == 2
\* longest git_options string, in pieces
MaxOptionLen == 3

(***************************************************************************)
(* The anytree Node graph.  Nodes below the root are 1..n, the root is 0.  *)
(* Nodes are numbered in creation order, which for a sequential discovery  *)
(* is depth-first pre-order, so the children of a node in insertion order  *)
(* are its children in index order.  parent[i] = Detached models           *)
(* `child.parent = None`.                                                  *)
(***************************************************************************)
Root == 0
Detached == -1

Names == {"a", "b"}

VARIABLES
    \* ---- the tree (shared by the filter and the sync step)
    n,          \* number of nodes created below the root
    parent,     \* [1..n -> Nat \cup {Detached}]: Node.parent
    name,       \* [1..n -> Names]: Node.name
    ntype,      \* [1..n -> {"group","subgroup","project"}]: Node.type
    rpath,      \* [1..n -> Seq(STRING)]: Node.root_path, set at creation
    \* ---- GitSyncManager.sync
    syncPc,     \* position of the calling thread in sync()
    W,          \* GitSyncManager.concurrency (max_workers)
    todo,       \* nodes GitActionCollector still has to visit, depth first
    dirs,       \* nodes whose destination directory exists on disk
    actions,    \* the collected GitActions, in order (the node of each)
    queue,      \* executor work queue: indices into actions
    running,    \* indices of the actions a worker thread is executing
    op,         \* [action index -> what execute() chose to do]
    outcome,    \* [action index -> exception stored in its Future]
    execs,      \* [action index -> calls of clone_or_pull_project]
    interrupted,\* a KeyboardInterrupt has been raised in some clone/pull
    lateStart,  \* an action was started after that interrupt
    \* ---- TreeFilter.apply / GitlabTree.filter_tree
    impl,       \* which of the two filter implementations runs
    cfgIncludes,\* include patterns as configured (absent, or a list)
    cfgExcludes,\* exclude patterns as configured (absent, or a list)
    includes,   \* self.includes, as the constructor stores them
    excludes,   \* self.excludes, as the constructor stores them
    filterPc,   \* "idle" or "running"
    fstack,     \* call stack of process_node / filter_tree
    applied,    \* completed applications of the filter
    parent0,    \* the parent links before the first application
    result1,    \* the parent links after the first application
    \* ---- cli.run_gitlabber, after load_tree
    run,        \* what the run did with the loaded tree
    \* ---- add_projects: the URL of a project node
    urlCfg,     \* the configuration and the project the API returned
    nodeUrl,    \* node.url of the project node, << >> before it is created
    \* ---- GitRepository.execute on one GitAction
    request,    \* the construction asked for: who builds the GitAction, with
                \* which keywords and values, and for which node
    onDisk,     \* what action.path is on disk
    gitAction,  \* the GitAction built
    xpc,        \* "new", "TypeError", "ready", "done", "GitlabberGitError"
    gitLog,     \* the git commands execute() ran, in order
    \* ---- discovery: the remote hierarchy and the configuration
    m,          \* number of remote entities (groups, subgroups, projects)
    rparent,    \* [1..m -> 0..m]: the group an entity belongs to (0: none)
    rproj,      \* the entities that are projects
    failing,    \* the API calls that raise: <<"sublist", g>>, <<"get", s>>,
                \* <<"projlist", g>>
    failFast,   \* GitlabTree.fail_fast
    conc,       \* api_concurrency
    bimpl,      \* "Builder" (GitlabTreeBuilder) or "GitlabTree" (its own loader)
    source,     \* "groups" (the group hierarchy) or "user" (personal projects)
    \* ---- discovery: the run
    built,      \* [0..m -> Seq(1..m)]: children of each created node, in order
    mainPc,     \* position of build_from_gitlab / load_gitlab_tree
    mainIdx,    \* index of the sequential loop over the top-level groups
    tpc,        \* [<<kind, entity>> -> position of that call]
    gsIdx,      \* [entity -> index of get_subgroups' sequential loop]
    handled,    \* failing calls reported to the error handler
    reported,   \* the error handler has raised (fail-fast)
    lateCall,   \* an API call was started after the handler raised
    ungated,    \* an API call was started without an acquire() of its own
    \* ---- RateLimitedExecutor
    callers,    \* number of threads that call acquire
    max_requests, \* self.max_requests
    clock,      \* time.monotonic(), in units of window_seconds / 2
    requests,   \* self.requests: the recorded timestamps
    lock,       \* self.lock: the thread that holds it, 0 when free
    lpc,        \* [thread -> position in acquire]
    lnow,       \* [thread -> its local `now`]
    returned    \* [thread -> calls of acquire that returned]

treeVars == <<n, parent, name, ntype, rpath>>
filterVars == <<impl, cfgIncludes, cfgExcludes, includes, excludes, filterPc, fstack, applied, parent0,
                result1>>
syncVars == <<syncPc, W, todo, dirs, actions, queue, running, op, outcome,
              execs, interrupted, lateStart>>

remoteVars == <<m, rparent, rproj, failing, failFast, conc, bimpl, source>>
buildVars == <<built, mainPc, mainIdx, tpc, gsIdx, handled, reported,
               lateCall, ungated>>

\* what the actions of the sync step leave alone, those of the filter, and
\* those of the discovery
limiterVars == <<callers, max_requests, clock, requests, lock, lpc, lnow,
                 returned>>

urlVars == <<urlCfg, nodeUrl>>
execVars == <<request, onDisk, gitAction, xpc, gitLog>>

syncRest == <<treeVars, filterVars, remoteVars, buildVars, limiterVars, run,
              urlVars, execVars>>
filterRest == <<syncVars, remoteVars, buildVars, limiterVars, run, urlVars,
                execVars>>
buildRest == <<treeVars, syncVars, filterVars, remoteVars, limiterVars, run,
               urlVars, execVars>>
limiterRest == <<treeVars, syncVars, filterVars, remoteVars, buildVars, run,
                 urlVars, execVars>>
runRest == <<treeVars, syncVars, filterVars, remoteVars, buildVars, limiterVars,
             urlVars, execVars>>
urlRest == <<treeVars, syncVars, filterVars, remoteVars, buildVars, limiterVars,
             run, execVars>>
execRest == <<treeVars, syncVars, filterVars, remoteVars, buildVars, limiterVars,
              run, urlVars>>

(***************************************************************************)
(* Tree shapes: every ordered rooted tree with k nodes below the root,     *)
(* numbered in pre-order.  Node k+1 can be attached to the root or to a    *)
(* node on the path from the root to node k.                               *)
(***************************************************************************)
RECURSIVE AncSelf(_, _)
AncSelf(par, i) ==
    IF i <= 0 THEN {} ELSE {i} \cup AncSelf(par, par[i])

RightSpine(par) ==
    {Root} \cup AncSelf(par, Len(par))

RECURSIVE TreeShapes(_)
TreeShapes(k) ==
    IF k = 0 THEN {<< >>}
    ELSE UNION {{Append(t, p) : p \in RightSpine(t)} : t \in TreeShapes(k - 1)}

\* Node.children: the attached children of a node, in insertion order
RECURSIVE ChildSeq(_, _, _)
ChildSeq(par, x, i) ==
    IF i > Len(par) THEN << >>
    ELSE (IF par[i] = x THEN <<i>> ELSE << >>) \o ChildSeq(par, x, i + 1)

Children(x) == ChildSeq(parent, x, 1)

\* Node.is_leaf
IsLeaf(x) == Children(x) = << >>

\* reachable from the root through parent links (detaching a node cuts its
\* whole subtree off)
RECURSIVE ReachableIn(_, _)
ReachableIn(par, x) ==
    IF x = Root THEN TRUE
    ELSE IF x = Detached THEN FALSE
    ELSE ReachableIn(par, par[x])

Reachable(x) == ReachableIn(parent, x)

\* the leaves below the root (root.leaves without the root itself)
LeavesBelowRoot == {x \in 1..n : Reachable(x) /\ IsLeaf(x)}

(***************************************************************************)
(* _root_path / _make_node: "/".join(str(n.name) for n in node.path); the  *)
(* root's name is "", so the path of a node starts with "/".               *)
(***************************************************************************)
RECURSIVE RootPathOf(_, _, _)
RootPathOf(par, nm, x) ==
    IF x = Root THEN << >>
    ELSE RootPathOf(par, nm, par[x]) \o <<"/", nm[x]>>

\* (mutant) a subgroup node is created with the type "project"
TypeOfSubgroupAsProject(par, projects, x) ==
    IF par[x] = Root THEN "group" ELSE "project"

\* Node.type as discovery assigns it: "group" below the root, "subgroup"
\* deeper; a leaf is a project or an empty group/subgroup
TypeOf(par, projects, x) ==
    IF x \in projects THEN "project"
    ELSE IF par[x] = Root THEN "group" ELSE "subgroup"

ShapeLeaves(par) == {x \in 1..Len(par) : \A y \in 1..Len(par) : par[y] # x}

\* projects are never created directly below the root
ProjectChoices(par) == SUBSET {x \in ShapeLeaves(par) : par[x] # Root}

TreeInit ==
    /\ n \in 0..MaxNodes
    /\ parent \in TreeShapes(n)
    /\ name \in [1..n -> Names]
    /\ \E projects \in ProjectChoices(parent) :
          ntype = [x \in 1..n |-> TypeOf(parent, projects, x)]
    /\ rpath = [x \in 1..n |-> RootPathOf(parent, name, x)]

(***************************************************************************)
(* GitSyncManager.sync (git.py 304-335).                                   *)
(*                                                                         *)
(* The calling thread collects the actions, hands all of them to a         *)
(* ThreadPoolExecutor with executor.map and leaves the `with` block, which *)
(* is shutdown(wait=True): it waits until every submitted work item has    *)
(* run.  The iterator executor.map returns is never consumed, so the       *)
(* exception a work item raised stays in its Future.                       *)
(***************************************************************************)
SyncInit ==
    /\ syncPc = "start"
    /\ W \in 1..MaxWorkers
    /\ todo = << >>
    /\ dirs = {}
    /\ actions = << >>
    /\ queue = << >>
    /\ running = {}
    /\ op = << >>
    /\ outcome = << >>
    /\ execs = << >>
    /\ interrupted = FALSE
    /\ lateStart = FALSE

\* collector.collect(root): _collect_from_node(root, actions) starts on the
\* root's children
SyncStart ==
    /\ syncPc = "start"
    /\ syncPc' = "collect"
    /\ todo' = Children(Root)
    /\ UNCHANGED <<W, dirs, actions, queue, running, op, outcome, execs,
                   interrupted, lateStart>>
    /\ UNCHANGED syncRest

\* (mutant) path.parent.mkdir(...): the directory of the node is not made
MkdirOfParent(path) ==
    {SubSeq(path, 1, 2 * k) : k \in 1..((Len(path) \div 2) - 1)}

\* path.mkdir(parents=True, exist_ok=True): the directory of the node and of
\* every prefix of its root_path
Mkdir(path) ==
    {SubSeq(path, 1, 2 * k) : k \in 1..(Len(path) \div 2)}

\* (mutant) the collector appends an action for every node it visits
CollectsEveryNode(child) == TRUE

\* `if child.is_leaf: actions.append(GitAction(child, ...))`
CollectsAction(child) == IsLeaf(child)

\* one iteration of `for child in node.children` in _collect_from_node: the
\* recursion into a non-leaf child visits its children before the next sibling
CollectNode ==
    /\ syncPc = "collect"
    /\ todo # << >>
    /\ LET child == Head(todo) IN
          /\ dirs' = dirs \cup Mkdir(rpath[child])
          /\ IF CollectsAction(child)
                THEN /\ actions' = Append(actions, child)
                     /\ op' = Append(op, "none")
                     /\ outcome' = Append(outcome, "pending")
                     /\ execs' = Append(execs, 0)
                ELSE UNCHANGED <<actions, op, outcome, execs>>
          /\ IF ~IsLeaf(child)
                THEN todo' = Children(child) \o Tail(todo)
                ELSE todo' = Tail(todo)
    /\ UNCHANGED <<syncPc, W, queue, running, interrupted, lateStart>>
    /\ UNCHANGED syncRest

\* collect() returns; executor.map(clone_or_pull_project, actions) submits one
\* work item per action, in order, and the calling thread enters the wait of
\* the `with` block's exit
Submit ==
    /\ syncPc = "collect"
    /\ todo = << >>
    /\ queue' = [i \in 1..Len(actions) |-> i]
    /\ syncPc' = "wait"
    /\ UNCHANGED <<W, todo, dirs, actions, running, op, outcome, execs,
                   interrupted, lateStart>>
    /\ UNCHANGED syncRest

\* GitRepository.execute: pull when the path is a repository, else clone;
\* clone returns at once for a node that is not a project
ChooseOp(isRepo, type) ==
    IF isRepo THEN "update"
    ELSE IF type # "project" THEN "skip"
    ELSE "clone"

\* the work item leaves the queue when a worker takes it
Dequeue(q) == Tail(q)

\* a worker thread takes the next work item and calls clone_or_pull_project;
\* is_git_repo(path) is the state of the disk
WorkerStart ==
    /\ syncPc = "wait"
    /\ queue # << >>
    /\ Cardinality(running) < W
    /\ LET i == Head(queue) IN
          /\ queue' = Dequeue(queue)
          /\ running' = running \cup {i}
          /\ execs' = [execs EXCEPT ![i] = @ + 1]
          /\ \E isRepo \in BOOLEAN :
                op' = [op EXCEPT ![i] = ChooseOp(isRepo, ntype[actions[i]])]
    /\ lateStart' = (lateStart \/ interrupted)
    /\ UNCHANGED <<syncPc, W, todo, dirs, actions, outcome, interrupted>>
    /\ UNCHANGED syncRest

\* what clone_or_pull_project can end with: it returns, raises
\* GitlabberGitError (any failure of the git command), or, on a
\* KeyboardInterrupt, calls sys.exit(0), which raises SystemExit in the worker
Results(o) ==
    IF o = "skip" THEN {"ok"} ELSE {"ok", "GitlabberGitError", "SystemExit"}

\* (mutant) a work item that raises cancels the work items still queued
WorkerFinishCancelsOnError ==
    /\ \E i \in running :
          \E r \in Results(op[i]) :
             /\ outcome' = [outcome EXCEPT ![i] = r]
             /\ running' = running \ {i}
             /\ interrupted' = (interrupted \/ r = "SystemExit")
             /\ queue' = IF r = "ok" THEN queue ELSE << >>
    /\ UNCHANGED <<syncPc, W, todo, dirs, actions, op, execs, lateStart>>
    /\ UNCHANGED syncRest

\* the work item ends; _WorkItem.run stores whatever it raised in the Future
\* and the worker goes on to the next item
WorkerFinish ==
    /\ \E i \in running :
          \E r \in Results(op[i]) :
             /\ outcome' = [outcome EXCEPT ![i] = r]
             /\ running' = running \ {i}
             /\ interrupted' = (interrupted \/ r = "SystemExit")
    /\ UNCHANGED <<syncPc, W, todo, dirs, actions, queue, op, execs, lateStart>>
    /\ UNCHANGED syncRest

\* shutdown(wait=True) ends; finish_progress(); sync() returns
SyncReturn ==
    /\ syncPc = "wait"
    /\ queue = << >>
    /\ running = {}
    /\ syncPc' = "returned"
    /\ UNCHANGED <<W, todo, dirs, actions, queue, running, op, outcome, execs,
                   interrupted, lateStart>>
    /\ UNCHANGED syncRest

SyncNext ==
    \/ SyncStart
    \/ CollectNode
    \/ Submit
    \/ WorkerStart
    \/ WorkerFinish
    \/ SyncReturn

(***************************************************************************)
(* globre.match(pattern, path) as the filter uses it: the pattern is       *)
(* anchored at both ends; "*" matches any run of characters other than     *)
(* "/", "**" any run of characters, every other token itself.  Paths and   *)
(* patterns are sequences of one-character tokens ("**" is one token).     *)
(***************************************************************************)
NoSlash(str, k) == \A j \in 1..k : str[j] # "/"

RECURSIVE GlobMatch(_, _)
GlobMatch(pat, str) ==
    IF pat = << >> THEN str = << >>
    ELSE IF Head(pat) = "**"
        THEN \E k \in 0..Len(str) :
                GlobMatch(Tail(pat), SubSeq(str, k + 1, Len(str)))
    ELSE IF Head(pat) = "*"
        THEN \E k \in 0..Len(str) :
                /\ NoSlash(str, k)
                /\ GlobMatch(Tail(pat), SubSeq(str, k + 1, Len(str)))
    ELSE /\ str # << >>
         /\ Head(str) = Head(pat)
         /\ GlobMatch(Tail(pat), Tail(str))

\* the patterns the include and exclude lists are drawn from:
\*   /a**   /*/b   /*/*/**   /b
PatternPool ==
    << <<"/", "a", "**">>,
       <<"/", "*", "/", "b">>,
       <<"/", "*", "/", "*", "/", "**">>,
       <<"/", "b">> >>

RECURSIVE SubLists(_, _)
SubLists(pool, len) ==
    IF pool = << >> \/ len = 0 THEN {<< >>}
    ELSE SubLists(Tail(pool), len)
         \cup {<<Head(pool)>> \o l : l \in SubLists(Tail(pool), len - 1)}

\* what the configuration can hold: no list at all (None), or a list
PatternLists ==
    {[absent |-> TRUE, list |-> << >>]}
    \cup {[absent |-> FALSE, list |-> l] : l \in SubLists(PatternPool, MaxPatterns)}

\* `includes or []` in TreeFilter.__init__ and GitlabTree.__init__
OrEmpty(c) == IF c.absent \/ c.list = << >> THEN << >> ELSE c.list

\* create_pattern_matcher: no patterns match nothing, else any() over them
create_pattern_matcher(patterns, path) ==
    IF patterns = << >> THEN FALSE
    ELSE \E i \in 1..Len(patterns) : GlobMatch(patterns[i], path)

\* create_include_predicate: `if not includes: return lambda _: True`
include_pred(x) ==
    IF includes = << >> THEN TRUE
    ELSE create_pattern_matcher(includes, rpath[x])

\* create_exclude_predicate: `if not excludes: return lambda _: False`
exclude_pred(x) ==
    IF excludes = << >> THEN FALSE
    ELSE create_pattern_matcher(excludes, rpath[x])

\* (mutant) an include match is returned before the exclude list is looked at
should_keep_include_first(x) ==
    IF includes # << >> /\ include_pred(x) THEN TRUE ELSE ~exclude_pred(x)

\* compose_predicates.should_keep
should_keep(x) ==
    IF exclude_pred(x) THEN FALSE ELSE include_pred(x)

\* GitlabTree.is_included
is_included(x) ==
    IF includes = << >> THEN TRUE
    ELSE \E i \in 1..Len(includes) : GlobMatch(includes[i], rpath[x])

\* GitlabTree.is_excluded
is_excluded(x) ==
    IF excludes = << >> THEN FALSE
    ELSE \E i \in 1..Len(excludes) : GlobMatch(excludes[i], rpath[x])

\* (mutant) the exclude list is forgotten
FailsKeepIncludeOnly(x) == ~include_pred(x)

\* the test both implementations make before `child.parent = None`
FailsKeep(x) ==
    IF impl = "TreeFilter" THEN ~should_keep(x)
    ELSE ~is_included(x) \/ is_excluded(x)

(***************************************************************************)
(* filter_tree_functional.process_node (tree_builder.py 112-126) and       *)
(* GitlabTree.filter_tree (gitlab_tree.py 199-213): the same recursion.    *)
(* A frame of the call stack holds the node, the snapshot of its children  *)
(* the loop iterates over (`list(node.children)`; anytree's children is a  *)
(* tuple copy), and the position in it.                                    *)
(***************************************************************************)
\* cli.run_gitlabber has not yet printed or synced the tree
NoRun == [print_tree_only |-> FALSE, outcome |-> "none", projects |-> {}]

FilterInit ==
    /\ impl \in {"TreeFilter", "GitlabTree"}
    /\ cfgIncludes \in PatternLists
    /\ cfgExcludes \in PatternLists
    /\ includes = OrEmpty(cfgIncludes)
    /\ excludes = OrEmpty(cfgExcludes)
    /\ filterPc = "idle"
    /\ fstack = << >>
    /\ applied = 0
    /\ parent0 = parent
    /\ result1 = << >>

Frame(x) == [node |-> x, snap |-> Children(x), idx |-> 1]

Top == fstack[Len(fstack)]

Advance(stack) ==
    [stack EXCEPT ![Len(stack)].idx = @ + 1]

\* TreeFilter.apply(root) / filter_tree(root) is called
ApplyStart ==
    /\ filterPc = "idle"
    /\ applied < MaxApplies
    /\ run = NoRun
    /\ filterPc' = "running"
    /\ fstack' = <<Frame(Root)>>
    /\ UNCHANGED <<impl, cfgIncludes, cfgExcludes, includes, excludes, applied, parent0, result1>>
    /\ UNCHANGED <<n, parent, name, ntype, rpath>>
    /\ UNCHANGED filterRest

\* (mutant) the test of a leaf is inverted
DetachLeafInverted(child) == ~FailsKeep(child)

\* (mutant) only project leaves are tested, a leaf group stays
DetachLeafProjectsOnly(child) == ntype[child] = "project" /\ FailsKeep(child)

\* `if not should_keep(child)` for a child that is a leaf
DetachLeaf(child) == FailsKeep(child)

\* the `else` branch: the child is a leaf and is tested at once
VisitLeaf ==
    /\ filterPc = "running"
    /\ Top.idx <= Len(Top.snap)
    /\ LET child == Top.snap[Top.idx] IN
          /\ IsLeaf(child)
          /\ parent' = IF DetachLeaf(child)
                          THEN [parent EXCEPT ![child] = Detached]
                          ELSE parent
    /\ fstack' = Advance(fstack)
    /\ UNCHANGED <<impl, cfgIncludes, cfgExcludes, includes, excludes, filterPc, applied, parent0, result1>>
    /\ UNCHANGED <<n, name, ntype, rpath>>
    /\ UNCHANGED filterRest

\* `if not child.is_leaf: process_node(child)`
Descend ==
    /\ filterPc = "running"
    /\ Top.idx <= Len(Top.snap)
    /\ LET child == Top.snap[Top.idx] IN
          /\ ~IsLeaf(child)
          /\ fstack' = Append(fstack, Frame(child))
    /\ UNCHANGED <<impl, cfgIncludes, cfgExcludes, includes, excludes, filterPc, applied, parent0, result1>>
    /\ UNCHANGED <<n, parent, name, ntype, rpath>>
    /\ UNCHANGED filterRest

\* (mutant) a child is not looked at again after the recursion into it
NoRecheckAfterRecursion(child) == FALSE

\* (mutant) a child is tested after the recursion whether or not it is a leaf
RecheckEveryChild(child) == FailsKeep(child)

\* the test made on a child after the recursion into it returned:
\* `if child.is_leaf and not should_keep(child)`
DetachAfterRecursion(child) == IsLeaf(child) /\ FailsKeep(child)

\* process_node(child) returns to the loop of its caller
Return ==
    /\ filterPc = "running"
    /\ Len(fstack) > 1
    /\ Top.idx > Len(Top.snap)
    /\ LET caller == SubSeq(fstack, 1, Len(fstack) - 1)
           child == Top.node
       IN /\ parent' = IF DetachAfterRecursion(child)
                          THEN [parent EXCEPT ![child] = Detached]
                          ELSE parent
          /\ fstack' = Advance(caller)
    /\ UNCHANGED <<impl, cfgIncludes, cfgExcludes, includes, excludes, filterPc, applied, parent0, result1>>
    /\ UNCHANGED <<n, name, ntype, rpath>>
    /\ UNCHANGED filterRest

\* process_node(root) returns: the application is complete
ApplyDone ==
    /\ filterPc = "running"
    /\ Len(fstack) = 1
    /\ Top.idx > Len(Top.snap)
    /\ filterPc' = "idle"
    /\ fstack' = << >>
    /\ applied' = applied + 1
    /\ result1' = IF applied = 0 THEN parent ELSE result1
    /\ UNCHANGED <<impl, cfgIncludes, cfgExcludes, includes, excludes, parent0>>
    /\ UNCHANGED <<n, parent, name, ntype, rpath>>
    /\ UNCHANGED filterRest

FilterNext ==
    \/ ApplyStart
    \/ VisitLeaf
    \/ Descend
    \/ Return
    \/ ApplyDone

(***************************************************************************)
(* cli.run_gitlabber 329-346: after tree.load_tree(), which ends with one  *)
(* application of the filter, the tree is printed or synced.               *)
(***************************************************************************)
\* Node.height: the number of edges of the longest path down to a leaf
RECURSIVE Height(_)
Height(x) ==
    IF IsLeaf(x) THEN 0
    ELSE LET hs == {Height(Children(x)[i]) : i \in 1..Len(Children(x))}
         IN  1 + CHOOSE h \in hs : \A k \in hs : k <= h

\* (mutant) a tree of groups without anything below them counts as empty
is_empty_below_groups == Height(Root) < 2

\* GitlabTree.is_empty: `return self.root.height < 1`
is_empty == Height(Root) < 1

\* the nodes of type project that are in the tree
ProjectNodes == {x \in 1..n : Reachable(x) /\ ntype[x] = "project"}

\* `if print_tree_only: tree.print_tree(...)`; else `if tree.is_empty():`
\* log.critical, raise typer.Exit(1); else tree.sync_tree(dest)
RunGitlabber ==
    /\ filterPc = "idle"
    /\ applied = 1
    /\ run = NoRun
    /\ \E print_tree_only \in BOOLEAN :
          run' = [print_tree_only |-> print_tree_only,
                  outcome |-> IF print_tree_only THEN "print_tree"
                              ELSE IF is_empty THEN "Exit(1)"
                              ELSE "sync_tree",
                  projects |-> ProjectNodes]
    /\ UNCHANGED runRest

(***************************************************************************)
(* Discovery: GitlabTreeBuilder.build_from_gitlab (tree_builder.py         *)
(* 203-565) and GitlabTree.load_gitlab_tree (gitlab_tree.py 275-356).      *)
(*                                                                         *)
(* The remote hierarchy is a tree of entities; the API calls on it are     *)
(* groups.list, group.subgroups.list, groups.get(id), group.projects.list. *)
(* Every invocation of _process_group/_process_subgroup ("P"),             *)
(* get_subgroups ("GS"), get_projects ("GP") and _fetch_subgroup_detail    *)
(* ("FD") is a call with its own position, whether it runs in the thread   *)
(* of its caller or as a work item of a ThreadPoolExecutor.  The error     *)
(* handler of the builder is GitlabTree.handle_error.                      *)
(***************************************************************************)
Kinds == {"P", "GS", "GP", "FD"}

Calls(k) == {<<c, e>> : c \in {"sublist", "get", "projlist"}, e \in 1..k}

\* the calls the API can be asked: list the subgroups or the projects of a
\* group, get a subgroup
ValidCalls(par, projects) ==
    {c \in Calls(Len(par)) :
        /\ c[2] \notin projects
        /\ c[1] = "get" => par[c[2]] # Root}

RemoteInit ==
    /\ m \in 0..MaxEntities
    /\ rparent \in TreeShapes(m)
    /\ rproj \in ProjectChoices(rparent)
    /\ failing \in {f \in SUBSET ValidCalls(rparent, rproj) :
                       Cardinality(f) <= MaxErrors}
    /\ failFast \in BOOLEAN
    /\ bimpl \in {"Builder", "GitlabTree"}
    /\ conc \in IF bimpl = "Builder" THEN 1..MaxApiConcurrency ELSE {1}
    /\ source \in {"groups", "user"}
    \* build_from_user_projects / load_user_tree: entity 1 stands for the
    \* "<username>-personal-projects" node, the others are the projects of the
    \* user; api_concurrency is not read
    /\ source = "user" =>
          /\ m >= 1
          /\ rparent = [i \in 1..m |-> IF i = 1 THEN Root ELSE 1]
          /\ rproj = 2..m
          /\ failing = {}
          /\ ~failFast
          /\ conc = 1

BuildInit ==
    /\ built = [x \in 0..m |-> << >>]
    /\ mainPc = "start"
    /\ mainIdx = 0
    /\ tpc = [t \in Kinds \X (1..m) |-> "none"]
    /\ gsIdx = [e \in 1..m |-> 0]
    /\ handled = {}
    /\ reported = FALSE
    /\ lateCall = FALSE
    /\ ungated = FALSE

RemoteChildren(e) == ChildSeq(rparent, e, 1)

IsGroup(e) == e \notin rproj
IsProject(e) == e \in rproj

\* group.subgroups.list() and group.projects.list()
Subgroups(e) == SelectSeq(RemoteChildren(e), IsGroup)
Projects(e) == SelectSeq(RemoteChildren(e), IsProject)

\* `[g for g in groups if g.parent_id is None]`
TopLevelGroups == Subgroups(Root)

Range(seq) == {seq[i] : i \in 1..Len(seq)}

\* (mutant) the builder uses its pools at every api_concurrency
ConcurrentAtAnyConcurrency == bimpl = "Builder"

\* the work of a pool goes on in worker threads
Concurrent == bimpl = "Builder" /\ conc > 1

Ended == {"done", "donenone", "raised"}

\* _process_group 281-285 / _process_subgroup 556-560: where a call stands.
\* A call that waits in subgroup_future.result(), project_future.result()
\* and the exit of the `with` block of its pool of two has ended when both
\* futures have: it raises what either raised, and returns otherwise
Status(t) ==
    IF tpc[t] = "join"
       THEN LET gs == tpc[<<"GS", t[2]>>]
                gp == tpc[<<"GP", t[2]>>]
            IN  IF gs \in Ended /\ gp \in Ended
                   THEN (IF gs = "raised" \/ gp = "raised" THEN "raised" ELSE "done")
                   ELSE "join"
       ELSE tpc[t]

\* a call that has ended, by returning or by raising
Finished(t) == Status(t) \in Ended

\* a work item a worker thread is busy with
Busy(t) == Status(t) \notin {"none", "queued"} \cup Ended

\* (mutant) the handler raises whatever fail_fast is
handle_error_always_raises == TRUE

\* GitlabTree.handle_error: `if self.fail_fast: raise GitlabberTreeError`
handle_error_raises == failFast

\* GitlabTreeBuilder calls self.rate_limiter.acquire() before groups.list
\* (209), projects.list (365), subgroups.list (400) and groups.get (458, 509);
\* GitlabTree's own loader has no rate limiter.  (The limit is far above the
\* calls of a model discovery: acquire returns at once.)
AcquiresBeforeCall == bimpl = "Builder"

\* an API call of the discovery of the group hierarchy is started
CallStarted ==
    /\ lateCall' = (lateCall \/ reported)
    /\ ungated' = (ungated \/ ~AcquiresBeforeCall)

\* a failing call is reported to the error handler, which logs or raises
Report(call) ==
    /\ handled' = handled \cup {call}
    /\ reported' = (reported \/ handle_error_raises)

\* build_from_gitlab 206-236 / load_gitlab_tree 337-339: groups.list, then
\* either every top-level group is submitted to a pool of api_concurrency
\* workers, or the groups are processed in a loop
BuildStart ==
    /\ mainPc = "start"
    /\ source = "groups"
    /\ CallStarted
    /\ IF Concurrent /\ Len(TopLevelGroups) > 1
          THEN /\ tpc' = [t \in DOMAIN tpc |->
                            IF t[1] = "P" /\ t[2] \in Range(TopLevelGroups)
                               THEN "queued" ELSE tpc[t]]
               /\ mainPc' = "collect"
               /\ mainIdx' = mainIdx
          ELSE /\ mainPc' = "seq"
               /\ mainIdx' = 1
               /\ tpc' = tpc
    /\ UNCHANGED <<built, gsIdx, handled, reported>>
    /\ UNCHANGED buildRest

\* build_from_user_projects 307-322 / load_user_tree 384-396: users.get and
\* user.projects.list are called, neither after an acquire(); the personal
\* node is created and the projects are added under it
BuildUserProjects ==
    /\ mainPc = "start"
    /\ source = "user"
    /\ ungated' = TRUE
    /\ built' = [built EXCEPT ![Root] = <<1>>, ![1] = Projects(1)]
    /\ mainPc' = "done"
    /\ UNCHANGED <<mainIdx, tpc, gsIdx, handled, reported, lateCall>>
    /\ UNCHANGED buildRest

\* the work items that share a pool with work item t, and the size of the pool
PoolOf(t) == {u \in DOMAIN tpc : u[1] = t[1] /\ rparent[u[2]] = rparent[t[2]]}

PoolSize(t) ==
    IF t[1] = "P" /\ rparent[t[2]] = Root THEN conc
    ELSE IF conc < Len(Subgroups(rparent[t[2]])) THEN conc
    ELSE Len(Subgroups(rparent[t[2]]))

\* the call can begin: its caller has called it, or it is a queued work item
\* and a worker thread of its pool is free to take it
Startable(t) ==
    \/ tpc[t] = "run"
    \/ /\ tpc[t] = "queued"
       /\ Cardinality({u \in PoolOf(t) : Busy(u)}) < PoolSize(t)

\* _process_group 271-289 / _process_subgroup 544-564: the node is created
\* under its parent; then get_subgroups and get_projects are submitted to a
\* pool of two, or get_subgroups is called
ProcessStart(e) ==
    /\ Startable(<<"P", e>>)
    /\ built' = [built EXCEPT ![rparent[e]] = Append(@, e)]
    /\ IF Concurrent
          THEN tpc' = [tpc EXCEPT ![<<"P", e>>] = "join",
                                  ![<<"GS", e>>] = "run",
                                  ![<<"GP", e>>] = "run"]
          ELSE tpc' = [tpc EXCEPT ![<<"P", e>>] = "waitS",
                                  ![<<"GS", e>>] = "run"]
    /\ UNCHANGED <<mainPc, mainIdx, gsIdx, handled, reported, lateCall, ungated>>
    /\ UNCHANGED buildRest

\* sequential: get_subgroups returned, get_projects is called; an exception of
\* get_subgroups leaves _process_group at once
ProcessAfterSubgroups(e) ==
    /\ tpc[<<"P", e>>] = "waitS"
    /\ Finished(<<"GS", e>>)
    /\ IF tpc[<<"GS", e>>] = "raised"
          THEN tpc' = [tpc EXCEPT ![<<"P", e>>] = "raised"]
          ELSE tpc' = [tpc EXCEPT ![<<"P", e>>] = "waitP",
                                  ![<<"GP", e>>] = "run"]
    /\ UNCHANGED <<built, mainPc, mainIdx, gsIdx, handled, reported,
                   lateCall, ungated>>
    /\ UNCHANGED buildRest

\* sequential: get_projects returned
ProcessAfterProjects(e) ==
    /\ tpc[<<"P", e>>] = "waitP"
    /\ Finished(<<"GP", e>>)
    /\ tpc' = [tpc EXCEPT ![<<"P", e>>] =
                  IF tpc[<<"GP", e>>] = "raised" THEN "raised" ELSE "done"]
    /\ UNCHANGED <<built, mainPc, mainIdx, gsIdx, handled, reported,
                   lateCall, ungated>>
    /\ UNCHANGED buildRest

\* get_projects 363-390 / 282-294: projects.list; the projects are added
\* under the node, or GitlabListError goes to the error handler
GetProjects(e) ==
    /\ tpc[<<"GP", e>>] = "run"
    /\ CallStarted
    /\ IF <<"projlist", e>> \in failing
          THEN /\ Report(<<"projlist", e>>)
               /\ tpc' = [tpc EXCEPT ![<<"GP", e>>] =
                             IF handle_error_raises THEN "raised" ELSE "done"]
               /\ built' = built
          ELSE /\ built' = [built EXCEPT ![e] = @ \o Projects(e)]
               /\ tpc' = [tpc EXCEPT ![<<"GP", e>>] = "done"]
               /\ UNCHANGED <<handled, reported>>
    /\ UNCHANGED <<mainPc, mainIdx, gsIdx>>
    /\ UNCHANGED buildRest

\* get_subgroups 399-410, 480-497 / 303-305, 323-330: subgroups.list; then
\* the details of the subgroups are fetched in a pool, or one by one
GetSubgroupsList(e) ==
    /\ tpc[<<"GS", e>>] = "run"
    /\ CallStarted
    /\ IF <<"sublist", e>> \in failing
          THEN /\ Report(<<"sublist", e>>)
               /\ tpc' = [tpc EXCEPT ![<<"GS", e>>] =
                             IF handle_error_raises THEN "raised" ELSE "done"]
               /\ gsIdx' = gsIdx
          ELSE /\ UNCHANGED <<handled, reported>>
               /\ IF Subgroups(e) = << >>
                     THEN /\ tpc' = [tpc EXCEPT ![<<"GS", e>>] = "done"]
                          /\ gsIdx' = gsIdx
                     ELSE IF Concurrent /\ Len(Subgroups(e)) > 1
                     THEN /\ tpc' = [t \in DOMAIN tpc |->
                                       IF t = <<"GS", e>> THEN "fetchwait"
                                       ELSE IF t[1] = "FD" /\ t[2] \in Range(Subgroups(e))
                                          THEN "queued" ELSE tpc[t]]
                          /\ gsIdx' = gsIdx
                     ELSE /\ tpc' = [tpc EXCEPT ![<<"GS", e>>] = "seq"]
                          /\ gsIdx' = [gsIdx EXCEPT ![e] = 1]
    /\ UNCHANGED <<built, mainPc, mainIdx>>
    /\ UNCHANGED buildRest

\* get_subgroups 456-479 / 306-322, one iteration of the sequential loop:
\* groups.get(subgroup_def.id), then the subgroup is processed; GitlabGetError
\* goes to the error handler and the loop continues
GetSubgroupSeq(e) ==
    /\ tpc[<<"GS", e>>] = "seq"
    /\ IF gsIdx[e] > Len(Subgroups(e))
          THEN /\ tpc' = [tpc EXCEPT ![<<"GS", e>>] = "done"]
               /\ UNCHANGED <<gsIdx, handled, reported, lateCall, ungated>>
          ELSE LET sub == Subgroups(e)[gsIdx[e]] IN
               /\ CallStarted
               /\ IF <<"get", sub>> \in failing
                     THEN /\ Report(<<"get", sub>>)
                          /\ IF handle_error_raises
                                THEN /\ tpc' = [tpc EXCEPT ![<<"GS", e>>] = "raised"]
                                     /\ gsIdx' = gsIdx
                                ELSE /\ tpc' = tpc
                                     /\ gsIdx' = [gsIdx EXCEPT ![e] = @ + 1]
                     ELSE /\ tpc' = [tpc EXCEPT ![<<"GS", e>>] = "seqwait",
                                                ![<<"P", sub>>] = "run"]
                          /\ UNCHANGED <<gsIdx, handled, reported>>
    /\ UNCHANGED <<built, mainPc, mainIdx>>
    /\ UNCHANGED buildRest

\* the subgroup processed in the sequential loop returned; what it raised is
\* GitlabberTreeError, which no handler of get_subgroups catches
GetSubgroupSeqReturn(e) ==
    /\ tpc[<<"GS", e>>] = "seqwait"
    /\ LET sub == Subgroups(e)[gsIdx[e]] IN
          /\ Finished(<<"P", sub>>)
          /\ IF Status(<<"P", sub>>) = "raised"
                THEN /\ tpc' = [tpc EXCEPT ![<<"GS", e>>] = "raised"]
                     /\ gsIdx' = gsIdx
                ELSE /\ tpc' = [tpc EXCEPT ![<<"GS", e>>] = "seq"]
                     /\ gsIdx' = [gsIdx EXCEPT ![e] = @ + 1]
    /\ UNCHANGED <<built, mainPc, mainIdx, handled, reported, lateCall, ungated>>
    /\ UNCHANGED buildRest

\* _fetch_subgroup_detail 499-535: groups.get(id); on GitlabGetError the
\* handler is called and None is returned
FetchDetail(e) ==
    /\ Startable(<<"FD", e>>)
    /\ CallStarted
    /\ IF <<"get", e>> \in failing
          THEN /\ Report(<<"get", e>>)
               /\ tpc' = [tpc EXCEPT ![<<"FD", e>>] =
                             IF handle_error_raises THEN "raised" ELSE "donenone"]
          ELSE /\ tpc' = [tpc EXCEPT ![<<"FD", e>>] = "done"]
               /\ UNCHANGED <<handled, reported>>
    /\ UNCHANGED <<built, mainPc, mainIdx, gsIdx>>
    /\ UNCHANGED buildRest

\* the futures of the pool named by `kind` that get_subgroups(e) submitted
Submitted(kind, e) ==
    {t \in DOMAIN tpc : t[1] = kind /\ rparent[t[2]] = e /\ tpc[t] # "none"}

\* a future of the set raised and the error handler raises what it is given
Raising(futures) ==
    /\ handle_error_raises
    /\ \E t \in futures : Status(t) = "raised"

\* an as_completed loop of get_subgroups(e), 419-430 and 441-448, comes to a
\* future that raised: the exception goes to the error handler, which raises
\* it out of the loop under fail-fast.  (The futures that returned are
\* consumed without effect.)
Collect(e, at, kind, unwind) ==
    /\ tpc[<<"GS", e>>] = at
    /\ Raising(Submitted(kind, e))
    /\ tpc' = [tpc EXCEPT ![<<"GS", e>>] = unwind]
    /\ UNCHANGED <<built, mainPc, mainIdx, gsIdx, handled, reported, lateCall, ungated>>
    /\ UNCHANGED buildRest

FetchCollect(e) == Collect(e, "fetchwait", "FD", "unwindF")

ProcessCollect(e) == Collect(e, "procwait", "P", "unwindP")

\* 432-439: every fetch has been consumed; each fetched subgroup (not None)
\* is submitted to the second pool
FetchAllSeen(e) ==
    /\ tpc[<<"GS", e>>] = "fetchwait"
    /\ \A t \in Submitted("FD", e) : Finished(t)
    /\ ~Raising(Submitted("FD", e))
    /\ tpc' = [t \in DOMAIN tpc |->
                 IF t = <<"GS", e>> THEN "procwait"
                 ELSE IF t[1] = "P" /\ rparent[t[2]] = e /\ tpc[<<"FD", t[2]>>] = "done"
                    THEN "queued" ELSE tpc[t]]
    /\ UNCHANGED <<built, mainPc, mainIdx, gsIdx, handled, reported,
                   lateCall, ungated>>
    /\ UNCHANGED buildRest

\* every processed subgroup has been consumed: get_subgroups returns
ProcessAllSeen(e) ==
    /\ tpc[<<"GS", e>>] = "procwait"
    /\ \A t \in Submitted("P", e) : Finished(t)
    /\ ~Raising(Submitted("P", e))
    /\ tpc' = [tpc EXCEPT ![<<"GS", e>>] = "done"]
    /\ UNCHANGED <<built, mainPc, mainIdx, gsIdx, handled, reported,
                   lateCall, ungated>>
    /\ UNCHANGED buildRest

\* an exception leaves the `with` block of a pool: shutdown(wait=True) lets
\* every submitted work item run to its end, then the exception goes on
Unwind(e, at, kind) ==
    /\ tpc[<<"GS", e>>] = at
    /\ \A t \in Submitted(kind, e) : Finished(t)
    /\ tpc' = [tpc EXCEPT ![<<"GS", e>>] = "raised"]
    /\ UNCHANGED <<built, mainPc, mainIdx, gsIdx, handled, reported,
                   lateCall, ungated>>
    /\ UNCHANGED buildRest

FetchUnwind(e) == Unwind(e, "unwindF", "FD")

ProcessUnwind(e) == Unwind(e, "unwindP", "P")

TopTasks == {<<"P", g>> : g \in Range(TopLevelGroups)}

\* build_from_gitlab 228-236: the as_completed loop over the top-level groups
\* comes to a future that raised
MainCollect ==
    /\ mainPc = "collect"
    /\ Raising(TopTasks)
    /\ mainPc' = "unwind"
    /\ UNCHANGED <<built, mainIdx, tpc, gsIdx, handled, reported, lateCall, ungated>>
    /\ UNCHANGED buildRest

\* every top-level group has been consumed: finish_progress(); return root
MainAllSeen ==
    /\ mainPc = "collect"
    /\ \A t \in TopTasks : Finished(t)
    /\ ~Raising(TopTasks)
    /\ mainPc' = "done"
    /\ UNCHANGED <<built, mainIdx, tpc, gsIdx, handled, reported, lateCall, ungated>>
    /\ UNCHANGED buildRest

\* the exception leaves the `with` block once every work item has ended, and
\* then build_from_gitlab
MainUnwind ==
    /\ mainPc = "unwind"
    /\ \A t \in TopTasks : Finished(t)
    /\ mainPc' = "raised"
    /\ UNCHANGED <<built, mainIdx, tpc, gsIdx, handled, reported, lateCall, ungated>>
    /\ UNCHANGED buildRest

\* build_from_gitlab 239-247 / load_gitlab_tree 339-350: the next top-level
\* group is processed in the calling thread
MainSeqCall ==
    /\ mainPc = "seq"
    /\ IF mainIdx > Len(TopLevelGroups)
          THEN /\ mainPc' = "done"
               /\ tpc' = tpc
          ELSE /\ mainPc' = "seqwait"
               /\ tpc' = [tpc EXCEPT ![<<"P", TopLevelGroups[mainIdx]>>] = "run"]
    /\ UNCHANGED <<built, mainIdx, gsIdx, handled, reported, lateCall, ungated>>
    /\ UNCHANGED buildRest

\* it returned; `except Exception` hands what it raised to the error handler,
\* which raises it out of the loop under fail-fast (and, in load_gitlab_tree
\* and load_tree, out of the enclosing handlers the same way)
MainSeqReturn ==
    /\ mainPc = "seqwait"
    /\ Finished(<<"P", TopLevelGroups[mainIdx]>>)
    /\ IF Status(<<"P", TopLevelGroups[mainIdx]>>) = "raised" /\ handle_error_raises
          THEN /\ mainPc' = "raised"
               /\ mainIdx' = mainIdx
          ELSE /\ mainPc' = "seq"
               /\ mainIdx' = mainIdx + 1
    /\ UNCHANGED <<built, tpc, gsIdx, handled, reported, lateCall, ungated>>
    /\ UNCHANGED buildRest

NextBuild ==
    \/ BuildStart
    \/ BuildUserProjects
    \/ MainCollect
    \/ MainAllSeen
    \/ MainUnwind
    \/ MainSeqCall
    \/ MainSeqReturn
    \/ \E e \in 1..m : ProcessStart(e)
    \/ \E e \in 1..m : ProcessAfterSubgroups(e)
    \/ \E e \in 1..m : ProcessAfterProjects(e)
    \/ \E e \in 1..m : GetProjects(e)
    \/ \E e \in 1..m : GetSubgroupsList(e)
    \/ \E e \in 1..m : GetSubgroupSeq(e)
    \/ \E e \in 1..m : GetSubgroupSeqReturn(e)
    \/ \E e \in 1..m : FetchDetail(e)
    \/ \E e \in 1..m : FetchCollect(e)
    \/ \E e \in 1..m : FetchAllSeen(e)
    \/ \E e \in 1..m : FetchUnwind(e)
    \/ \E e \in 1..m : ProcessCollect(e)
    \/ \E e \in 1..m : ProcessAllSeen(e)
    \/ \E e \in 1..m : ProcessUnwind(e)

(***************************************************************************)
(* RateLimitedExecutor.  Threads 1..callers call acquire(); the clock is   *)
(* time.monotonic() and advances on its own.  A sleep of acquire lasts     *)
(* min(wait_time, 1.0) seconds, less than one unit of the clock, so a      *)
(* sleeping thread can wake at the time it fell asleep or at any later     *)
(* time.                                                                   *)
(***************************************************************************)
LimiterInit ==
    /\ callers \in 1..MaxCallers
    /\ max_requests \in 1..MaxRequests
    /\ clock = 0
    /\ requests = << >>
    /\ lock = 0
    /\ lpc = [t \in 1..callers |-> "idle"]
    /\ lnow = [t \in 1..callers |-> 0]
    /\ returned = [t \in 1..callers |-> 0]

\* (mutant) the window is forgotten: only requests newer than now are kept
InsideWindowNoCutoff(req_time, now) == req_time > now

\* `[req_time for req_time in self.requests if req_time > cutoff_time]` with
\* cutoff_time = now - self.window_seconds
InsideWindow(req_time, now) == req_time > now - window_seconds

Prune(reqs, now) == SelectSeq(reqs, LAMBDA req_time : InsideWindow(req_time, now))

\* (mutant) the limit is reached one request late
LimitReachedLate(reqs) == Len(reqs) > max_requests

\* `while len(self.requests) >= self.max_requests`
LimitReached(reqs) == Len(reqs) >= max_requests

\* acquire 44-50: `with self.lock`, now = time.monotonic(), the expired
\* requests are dropped
AcquireEnter(t) ==
    /\ lpc[t] = "idle"
    /\ returned[t] < MaxAcquires
    /\ lock = 0
    /\ lock' = t
    /\ lnow' = [lnow EXCEPT ![t] = clock]
    /\ requests' = Prune(requests, clock)
    /\ lpc' = [lpc EXCEPT ![t] = "check"]
    /\ UNCHANGED <<callers, max_requests, clock, returned>>
    /\ UNCHANGED limiterRest

\* (mutant) the thread sleeps at the limit without releasing the lock
AcquireWaitKeepsLock(t) ==
    /\ lpc[t] = "check"
    /\ LimitReached(requests)
    /\ LET oldest_request == requests[1]
           wait_time == window_seconds - (lnow[t] - oldest_request)
       IN  IF wait_time > 0
              THEN /\ lpc' = [lpc EXCEPT ![t] = "sleep"]
                   /\ UNCHANGED <<lock, requests>>
              ELSE /\ requests' = Prune(requests, lnow[t])
                   /\ UNCHANGED <<lock, lpc>>
    /\ UNCHANGED <<callers, max_requests, clock, lnow, returned>>
    /\ UNCHANGED limiterRest

\* acquire 53-74, the limit is reached: the lock is released and the thread
\* sleeps if the oldest request has not left the window; otherwise the
\* expired requests are dropped and the limit is checked again
AcquireWait(t) ==
    /\ lpc[t] = "check"
    /\ LimitReached(requests)
    /\ LET oldest_request == requests[1]
           wait_time == window_seconds - (lnow[t] - oldest_request)
       IN  IF wait_time > 0
              THEN /\ lock' = 0
                   /\ lpc' = [lpc EXCEPT ![t] = "sleep"]
                   /\ requests' = requests
              ELSE /\ requests' = Prune(requests, lnow[t])
                   /\ UNCHANGED <<lock, lpc>>
    /\ UNCHANGED <<callers, max_requests, clock, lnow, returned>>
    /\ UNCHANGED limiterRest

\* (mutant) after the sleep `now` is not read again
AcquireWakeStaleNow(t) ==
    /\ lpc[t] = "sleep"
    /\ lock = 0
    /\ lock' = t
    /\ requests' = Prune(requests, lnow[t])
    /\ lpc' = [lpc EXCEPT ![t] = "check"]
    /\ UNCHANGED <<callers, max_requests, clock, lnow, returned>>
    /\ UNCHANGED limiterRest

\* acquire 64-70: the sleep is over, the lock is taken again, now is read
\* again and the expired requests are dropped
AcquireWake(t) ==
    /\ lpc[t] = "sleep"
    /\ lock = 0
    /\ lock' = t
    /\ lnow' = [lnow EXCEPT ![t] = clock]
    /\ requests' = Prune(requests, clock)
    /\ lpc' = [lpc EXCEPT ![t] = "check"]
    /\ UNCHANGED <<callers, max_requests, clock, returned>>
    /\ UNCHANGED limiterRest

\* acquire 76-77: below the limit the request is recorded, the lock is
\* released and acquire returns
AcquireRecord(t) ==
    /\ lpc[t] = "check"
    /\ ~LimitReached(requests)
    /\ requests' = Append(requests, lnow[t])
    /\ lock' = 0
    /\ lpc' = [lpc EXCEPT ![t] = "idle"]
    /\ returned' = [returned EXCEPT ![t] = @ + 1]
    /\ UNCHANGED <<callers, max_requests, clock, lnow>>
    /\ UNCHANGED limiterRest

\* time passes
Tick ==
    /\ clock < MaxTime
    /\ clock' = clock + 1
    /\ UNCHANGED <<callers, max_requests, requests, lock, lpc, lnow, returned>>
    /\ UNCHANGED limiterRest

NextLimiter ==
    \/ Tick
    \/ \E t \in 1..callers : AcquireEnter(t)
    \/ \E t \in 1..callers : AcquireWait(t)
    \/ \E t \in 1..callers : AcquireWake(t)
    \/ \E t \in 1..callers : AcquireRecord(t)

(***************************************************************************)
(* The URL of a project node: url_builder.build_project_url, called by     *)
(* GitlabTreeBuilder.add_projects, and the same computation written out in *)
(* GitlabTree.add_projects.  A URL is a sequence of pieces; "://" is one    *)
(* piece, and so is the token.                                             *)
(***************************************************************************)
\* project.http_url_to_repo
HttpUrls ==
    { <<"https", "://", "gitlab.com", "/", "g", "/", "p.git">>,
      <<"http", "://", "host", ":", "8080", "/", "g", "/", "p.git">> }

\* project.ssh_url_to_repo, in the scp form and in the ssh:// form
SshUrls ==
    { <<"git@", "gitlab.com", ":", "g", "/", "p.git">>,
      <<"ssh", "://", "git@", "host", ":", "2222", "/", "g", "/", "p.git">> }

\* the configured token: None, the empty string or a token
NoToken == "<None>"
Tokens == {NoToken, "", "glpat-s3cret"}

UrlInit ==
    /\ urlCfg \in [impl : {"Builder", "GitlabTree"},
                   method : {"ssh", "http"},
                   token : Tokens,
                   hide_token : BOOLEAN,
                   http_url : HttpUrls,
                   ssh_url : SshUrls]
    /\ nodeUrl = << >>

\* url.replace("://", f"://gitlab-token:{token}@"): every "://" of the URL
RECURSIVE _inject_token(_, _)
_inject_token(url, token) ==
    IF url = << >> THEN << >>
    ELSE (IF Head(url) = "://" THEN <<"://", "gitlab-token:", token, "@">>
          ELSE <<Head(url)>>) \o _inject_token(Tail(url), token)

\* select_project_url / `ssh_url_to_repo if self.method is CloneMethod.SSH
\* else http_url_to_repo`
select_project_url(c) == IF c.method = "ssh" THEN c.ssh_url ELSE c.http_url

\* build_project_url tests `token` (None and "" are false), GitlabTree
\* .add_projects tests `self.token is not None`
TokenGiven(c) ==
    IF c.impl = "Builder" THEN c.token \notin {NoToken, ""}
    ELSE c.token # NoToken

\* (mutant) the token is injected whatever hide_token is
HidesNothing(c) == FALSE

\* `if hide_token: return base_url` / `if not self.hide_token:`
Hides(c) == c.hide_token

build_project_url(c) ==
    IF c.method = "http" /\ TokenGiven(c) /\ ~Hides(c)
       THEN _inject_token(select_project_url(c), c.token)
       ELSE select_project_url(c)

\* add_projects: the project node is created with its URL
AddProject ==
    /\ nodeUrl = << >>
    /\ nodeUrl' = build_project_url(urlCfg)
    /\ UNCHANGED urlCfg
    /\ UNCHANGED urlRest

NextUrl == AddProject

(***************************************************************************)
(* GitRepository.execute on one GitAction (git.py).  A string is the       *)
(* sequence of its pieces: "," is a piece, and any other piece is a run of *)
(* characters without a comma, so that str.split(',') is computed and not  *)
(* assumed.  An Optional[str] is << >> for None and <<s>> for the string s.*)
(***************************************************************************)
\* the pieces a git_options string is made of
OptionPieces == {"--depth=1", ","}

\* the strings of at most MaxOptionLen pieces
RECURSIVE StringsOfLen(_)
StringsOfLen(k) ==
    IF k = 0 THEN { << >> }
    ELSE { <<c>> \o s : c \in OptionPieces, s \in StringsOfLen(k - 1) }

OptionStrings == UNION { StringsOfLen(k) : k \in 0..MaxOptionLen }

\* git_options: Optional[str] = None
None == << >>
GitOptions == {None} \cup { <<s>> : s \in OptionStrings }

\* the fields of the GitAction dataclass that carry a flag, and the flag
\* parameters of GitActionCollector.__init__: the same four names
GitActionFlags == {"recursive", "use_fetch", "hide_token", "git_options"}
CollectorFlags == {"recursive", "use_fetch", "hide_token", "git_options"}

NoAction ==
    [type |-> "none", recursive |-> FALSE, use_fetch |-> FALSE,
     git_options |-> None]

\* the caller builds a GitAction itself or lets GitActionCollector build
\* it for a leaf of type `type`; it passes the flags by keyword, and some
\* callers pass mirror as well (hide_token only changes what is logged)
ExecInit ==
    /\ request \in [via : {"GitAction", "GitActionCollector"},
                    type : {"group", "subgroup", "project"},
                    keywords : {GitActionFlags, GitActionFlags \cup {"mirror"}},
                    recursive : BOOLEAN,
                    use_fetch : BOOLEAN,
                    mirror : BOOLEAN,
                    git_options : GitOptions]
    /\ ("mirror" \notin request.keywords => ~request.mirror)
    \* "repo": a valid repository; "none": not a repository; "vanishes": a
    \* repository when is_git_repo looks, not one when execute opens it
    /\ onDisk \in {"repo", "none", "vanishes"}
    /\ gitAction = NoAction
    /\ xpc = "new"
    /\ gitLog = << >>

\* the keywords the constructor called accepts
Accepted(via) ==
    IF via = "GitAction" THEN GitActionFlags ELSE CollectorFlags

\* GitAction(node, path, ...) or GitActionCollector(dest, ...).collect: a
\* keyword the constructor does not have is a TypeError; the collector
\* copies its four flags to the action of every leaf
Construct ==
    /\ xpc = "new"
    /\ IF request.keywords \subseteq Accepted(request.via)
          THEN /\ gitAction' = [type |-> request.type,
                                recursive |-> request.recursive,
                                use_fetch |-> request.use_fetch,
                                git_options |-> request.git_options]
               /\ xpc' = "ready"
          ELSE /\ xpc' = "TypeError"
               /\ UNCHANGED gitAction
    /\ UNCHANGED <<request, onDisk, gitLog>>
    /\ UNCHANGED execRest

\* str.split(','): the pieces between the commas, the empty ones included
RECURSIVE split(_)
split(s) ==
    IF \A i \in 1..Len(s) : s[i] # "," THEN <<s>>
    ELSE LET i == CHOOSE k \in 1..Len(s) :
                      s[k] = "," /\ \A j \in 1..(k - 1) : s[j] # ","
         IN  <<SubSeq(s, 1, i - 1)>> \o split(SubSeq(s, i + 1, Len(s)))

\* `if action.git_options:` is false for None and for the empty string
Truthy(o) == o # None /\ o[1] # << >>

\* clone 71: `if action.use_fetch:` appends '--mirror'
AppendsMirror(a) == a.use_fetch

\* clone 68-74: the option list handed to git.Repo.clone_from
multi_options(a) ==
    (IF a.recursive THEN << <<"--recursive">> >> ELSE << >>)
    \o (IF AppendsMirror(a) THEN << <<"--mirror">> >> ELSE << >>)
    \o (IF Truthy(a.git_options) THEN split(a.git_options[1]) ELSE << >>)

Git(cmd, options) == [cmd |-> cmd, multi_options |-> options]

\* clone: nothing for a node that is not a project, else one clone_from
clone(a) ==
    IF a.type # "project" THEN << >>
    ELSE << Git("clone_from", multi_options(a)) >>

\* (mutant) the update is always a pull
AlwaysPull(a) == "pull"

\* pull 141-144: origin.pull(), or origin.fetch() in fetch mode
UpdateCommand(a) == IF a.use_fetch THEN "fetch" ELSE "pull"

\* pull 141-146: the update, then the submodules if it did not raise
pull(a, raises) ==
    << Git(UpdateCommand(a), << >>) >>
    \o (IF ~raises /\ a.recursive
           THEN << Git("submodule_update", << >>) >> ELSE << >>)

\* execute 197-218: a repository that opens is updated; one that
\* git.Repo(path) refuses (InvalidGitRepositoryError) is cloned, and so is a
\* path that is no repository
execute(a, disk, raises) ==
    IF disk = "repo" THEN pull(a, raises) ELSE clone(a)

\* the whole of execute; the git command it runs succeeds or raises, and
\* clone and pull turn what it raises into a GitlabberGitError
Execute ==
    /\ xpc = "ready"
    /\ \E raises \in BOOLEAN :
          /\ gitLog' = execute(gitAction, onDisk, raises)
          /\ xpc' = IF raises /\ gitLog' # << >>
                       THEN "GitlabberGitError" ELSE "done"
    /\ UNCHANGED <<request, onDisk, gitAction>>
    /\ UNCHANGED execRest

NextExec == Construct \/ Execute

(***************************************************************************)
(* The specifications.  Each runs one phase of the program; the variables  *)
(* of the other phases stay at rest.                                       *)
(***************************************************************************)
vars == <<treeVars, syncVars, filterVars, remoteVars, buildVars, limiterVars,
          run, urlVars, execVars>>

UrlAtRest ==
    /\ urlCfg = [impl |-> "Builder", method |-> "ssh", token |-> NoToken,
                 hide_token |-> FALSE, http_url |-> << >>, ssh_url |-> << >>]
    /\ nodeUrl = << >>

ExecAtRest ==
    /\ request = [via |-> "GitAction", type |-> "project",
                  keywords |-> GitActionFlags, recursive |-> FALSE,
                  use_fetch |-> FALSE, mirror |-> FALSE, git_options |-> None]
    /\ onDisk = "none"
    /\ gitAction = NoAction
    /\ xpc = "off"
    /\ gitLog = << >>

LimiterAtRest ==
    /\ callers = 0
    /\ max_requests = 1
    /\ clock = 0
    /\ requests = << >>
    /\ lock = 0
    /\ lpc = << >>
    /\ lnow = << >>
    /\ returned = << >>

RemoteAtRest ==
    /\ m = 0
    /\ rparent = << >>
    /\ rproj = {}
    /\ failing = {}
    /\ failFast = FALSE
    /\ conc = 1
    /\ bimpl = "Builder"
    /\ source = "groups"

BuildAtRest ==
    /\ built = [x \in 0..m |-> << >>]
    /\ mainPc = "off"
    /\ mainIdx = 0
    /\ tpc = [t \in Kinds \X (1..m) |-> "none"]
    /\ gsIdx = [e \in 1..m |-> 0]
    /\ handled = {}
    /\ reported = FALSE
    /\ lateCall = FALSE
    /\ ungated = FALSE

SyncAtRest ==
    /\ syncPc = "off"
    /\ W = 1
    /\ todo = << >>
    /\ dirs = {}
    /\ actions = << >>
    /\ queue = << >>
    /\ running = {}
    /\ op = << >>
    /\ outcome = << >>
    /\ execs = << >>
    /\ interrupted = FALSE
    /\ lateStart = FALSE

FilterAtRest ==
    /\ impl = "TreeFilter"
    /\ cfgIncludes = [absent |-> TRUE, list |-> << >>]
    /\ cfgExcludes = [absent |-> TRUE, list |-> << >>]
    /\ includes = << >>
    /\ excludes = << >>
    /\ filterPc = "off"
    /\ fstack = << >>
    /\ applied = 0
    /\ parent0 = parent
    /\ result1 = << >>

InitSync ==
    /\ TreeInit /\ SyncInit /\ FilterAtRest /\ RemoteAtRest /\ BuildAtRest
    /\ LimiterAtRest
    /\ run = NoRun
    /\ UrlAtRest
    /\ ExecAtRest

NextSync == SyncNext

SpecSync == InitSync /\ [][NextSync]_vars

InitFilter ==
    /\ TreeInit /\ FilterInit /\ SyncAtRest /\ RemoteAtRest /\ BuildAtRest
    /\ LimiterAtRest
    /\ run = NoRun
    /\ UrlAtRest
    /\ ExecAtRest

NextFilter == FilterNext \/ RunGitlabber

SpecFilter == InitFilter /\ [][NextFilter]_vars

\* the tree of the other phases is left empty during a discovery
TreeAtRest ==
    /\ n = 0
    /\ parent = << >>
    /\ name = << >>
    /\ ntype = << >>
    /\ rpath = << >>

InitBuild ==
    /\ TreeAtRest /\ SyncAtRest /\ FilterAtRest /\ RemoteInit /\ BuildInit
    /\ LimiterAtRest
    /\ run = NoRun
    /\ UrlAtRest
    /\ ExecAtRest

SpecBuild == InitBuild /\ [][NextBuild]_vars

InitLimiter ==
    /\ TreeAtRest /\ SyncAtRest /\ FilterAtRest /\ RemoteAtRest /\ BuildAtRest
    /\ LimiterInit
    /\ run = NoRun
    /\ UrlAtRest
    /\ ExecAtRest

SpecLimiter == InitLimiter /\ [][NextLimiter]_vars

\* the clock advances; a thread that can take a step inside acquire takes
\* it; a thread that waits for the lock (to enter, or after its sleep) gets
\* it if the lock is free again and again: every holder releases it before
\* it sleeps or returns
FairLimiter ==
    /\ WF_vars(Tick)
    /\ \A t \in 1..MaxCallers :
          /\ WF_vars(t <= callers /\ AcquireWait(t))
          /\ WF_vars(t <= callers /\ AcquireRecord(t))
          /\ SF_vars(t <= callers /\ AcquireWake(t))

SpecLimiterFair == InitLimiter /\ [][NextLimiter]_vars /\ FairLimiter

InitUrl ==
    /\ TreeAtRest /\ SyncAtRest /\ FilterAtRest /\ RemoteAtRest /\ BuildAtRest
    /\ LimiterAtRest
    /\ run = NoRun
    /\ UrlInit
    /\ ExecAtRest

SpecUrl == InitUrl /\ [][NextUrl]_vars

InitExec ==
    /\ TreeAtRest /\ SyncAtRest /\ FilterAtRest /\ RemoteAtRest /\ BuildAtRest
    /\ LimiterAtRest
    /\ run = NoRun
    /\ UrlAtRest
    /\ ExecInit

SpecExec == InitExec /\ [][NextExec]_vars

(***************************************************************************)
(* Claims about the sync step (SpecSync).                                  *)
(***************************************************************************)
ActionsOf(x) == {i \in 1..Len(actions) : actions[i] = x}

\* C1: for every pool size, one GitAction is collected per leaf below the
\* root and none for any other node, clone_or_pull_project never runs twice
\* for an action, and when sync() returns it has run exactly once for each.
C1_OneActionAndOneRunPerLeaf ==
    /\ \A i \in 1..Len(actions) : execs[i] <= 1
    /\ syncPc \in {"wait", "returned"} =>
          \A x \in 1..n :
             Cardinality(ActionsOf(x)) = IF x \in LeavesBelowRoot THEN 1 ELSE 0
    /\ syncPc = "returned" => \A i \in 1..Len(actions) : execs[i] = 1

\* sync() returned from a pool of two workers that ran several actions, one
\* of which failed
C1_Witness ==
    /\ syncPc = "returned"
    /\ W = 2
    /\ Cardinality(LeavesBelowRoot) >= 2
    /\ \E i \in 1..Len(actions) : outcome[i] = "GitlabberGitError"

\* C2: a sync in which a git action failed with GitlabberGitError never
\* returns normally.
C2_GitErrorLeavesSync ==
    syncPc = "returned" =>
        \A i \in 1..Len(actions) : outcome[i] # "GitlabberGitError"

\* C10: after a user interrupt in a clone or pull no further git action is
\* started and sync() does not return normally.
C10_InterruptEndsRun ==
    /\ ~lateStart
    /\ interrupted => syncPc # "returned"

(***************************************************************************)
(* Claims about the filter (SpecFilter).                                   *)
(***************************************************************************)
\* an application of the filter has returned
Filtered == applied >= 1 /\ filterPc = "idle"

\* the tree before the first application
Children0(x) == ChildSeq(parent0, x, 1)
Leaf0(x) == Children0(x) = << >>
ProperAnc0(x) == AncSelf(parent0, parent0[x])

\* C3 (as stated): after the filter returned, no node still reachable from
\* the root fails keep, non-leaf groups included.
C3_NoReachableNodeFailsKeep ==
    Filtered => \A x \in 1..n : Reachable(x) => should_keep(x)

\* C3 (amended): after the filter returned, every node that fails keep has
\* been cut off from the root unless it still has a child.
C3_FailingNodeDetachedUnlessParent ==
    Filtered => \A x \in 1..n : ~should_keep(x) => (~Reachable(x) \/ ~IsLeaf(x))

\* a node that fails keep survived with a child, and another was detached
C3_Witness ==
    /\ Filtered
    /\ \E x \in 1..n : Reachable(x) /\ ~should_keep(x) /\ ~IsLeaf(x)
    /\ \E y \in 1..n : parent[y] = Detached

\* keep as the claim states it, on the configured lists
MatchesSome(c, x) ==
    \E i \in 1..Len(c.list) : GlobMatch(c.list[i], rpath[x])

KeepAsStated(x) ==
    /\ cfgIncludes.absent \/ cfgIncludes.list = << >> \/ MatchesSome(cfgIncludes, x)
    /\ ~MatchesSome(cfgExcludes, x)

\* C4: keep(node) is true exactly when (the include list is empty or absent,
\* or an include pattern matches root_path) and no exclude pattern matches
\* it, in both implementations.
C4_KeepIsIncludeAndNotExclude ==
    \A x \in 1..n :
       /\ should_keep(x) <=> KeepAsStated(x)
       /\ ~(~is_included(x) \/ is_excluded(x)) <=> KeepAsStated(x)

\* a leaf matched by an include and by an exclude pattern has been detached
C4_Witness ==
    \E x \in 1..n :
       /\ MatchesSome(cfgIncludes, x)
       /\ MatchesSome(cfgExcludes, x)
       /\ parent[x] = Detached

\* C5: a second application of the filter removes nothing: from the end of
\* the first application on the tree stays as that application left it.
C5_SecondApplicationRemovesNothing ==
    applied >= 1 => parent = result1

\* two applications returned, the first of which removed a node and left one
C5_Witness ==
    /\ applied = 2
    /\ filterPc = "idle"
    /\ result1 # parent0
    /\ \E x \in 1..n : Reachable(x)

\* a leaf that the filter removes, deep in the tree, below ancestors that
\* have no other child
RemovedDeepLeaf(l) ==
    /\ Leaf0(l)
    /\ parent0[l] # Root
    /\ ~should_keep(l)
    /\ \A a \in ProperAnc0(l) : Len(Children0(a)) = 1

\* the ancestors of l from a down to l's parent
ChainBelow(a, l) == {b \in ProperAnc0(l) : a \in AncSelf(parent0, b)}

\* C6 (as stated): when the filter removes such a leaf, every ancestor of it
\* below the root is removed as well.
C6_EmptiedAncestorsRemoved ==
    Filtered =>
       \A l \in 1..n : RemovedDeepLeaf(l) =>
          \A a \in ProperAnc0(l) : ~Reachable(a)

\* C6 (amended): when the filter removes such a leaf, an ancestor of it is
\* removed exactly when it and every ancestor between it and the leaf fail
\* keep; an emptied ancestor that satisfies keep stays, as an empty group.
C6_EmptiedAncestorsRemovedIfTheyFailKeep ==
    Filtered =>
       \A l \in 1..n : RemovedDeepLeaf(l) =>
          \A a \in ProperAnc0(l) :
             ~Reachable(a) <=> \A b \in ChainBelow(a, l) : ~should_keep(b)

\* a chain of two emptied ancestors was removed with its leaf
C6_Witness ==
    /\ Filtered
    /\ \E l \in 1..n :
          /\ RemovedDeepLeaf(l)
          /\ Cardinality(ProperAnc0(l)) >= 2
          /\ \A a \in ProperAnc0(l) : ~Reachable(a)

\* C7: a node that has a child is never detached, whatever the patterns, so
\* every leaf that satisfies keep stays reachable with all its ancestors.
C7_NodeWithChildNeverDetached ==
    /\ \A x \in 1..n : ~IsLeaf(x) => parent[x] # Detached
    /\ Filtered => \A l \in 1..n : (Leaf0(l) /\ should_keep(l)) => Reachable(l)

\* a group that fails keep lost one child and kept another, and stays
C7_Witness ==
    /\ Filtered
    /\ \E x \in 1..n :
          /\ Reachable(x)
          /\ ~should_keep(x)
          /\ \E y \in 1..n : parent0[y] = x /\ parent[y] = Detached
          /\ \E z \in 1..n : parent0[z] = x /\ parent[z] = x


(***************************************************************************)
(* The run after the load (SpecFilter).                                    *)
(***************************************************************************)

\* C14: a run in print mode prints the tree, whatever is in it; a run in
\* sync mode exits with the empty-result error, without calling sync_tree,
\* exactly when no project node is left in the filtered tree
C14_NoProjectIsAnErrorInSyncMode ==
    run # NoRun =>
        /\ run.print_tree_only => run.outcome = "print_tree"
        /\ ~run.print_tree_only =>
              (run.outcome = "Exit(1)" <=> run.projects = {})

\* C15: after the load and after every application of the filter, is_empty
\* is true exactly when the root has no children
C15_EmptyIffRootHasNoChildren ==
    filterPc = "idle" => (is_empty <=> Children(Root) = << >>)

\* the filter has emptied a tree that had nodes, and is_empty is true
C15_Witness ==
    /\ Filtered
    /\ \E x \in 1..n : parent0[x] = Root
    /\ is_empty

(***************************************************************************)
(* Discovery.                                                              *)
(***************************************************************************)

\* the error cuts the branch of entity e: the listing that would have found
\* it fails, or the get of the subgroup fails
Skipped(e) ==
    IF IsProject(e) THEN <<"projlist", rparent[e]>> \in failing
    ELSE /\ rparent[e] # Root
         /\ \/ <<"sublist", rparent[e]>> \in failing
            \/ <<"get", e>> \in failing

\* what a discovery without the failing branches finds
Expected == {e \in 1..m : \A a \in AncSelf(rparent, e) : ~Skipped(a)}

\* the failing calls that such a discovery makes
ExpectedErrors ==
    {c \in failing :
        IF c[1] = "get"
           THEN rparent[c[2]] \in Expected /\ <<"sublist", rparent[c[2]]>> \notin failing
           ELSE c[2] \in Expected}

\* the nodes of the tree that was built
Present == {e \in 1..m : e \in Range(built[rparent[e]])}

\* C8: without fail-fast no call of the discovery raises and the build does
\* not raise; when it has returned, every failing call that was made has been
\* reported to the error handler and the tree holds every entity except those
\* below a failing call: the siblings of a skipped branch are present
C8_ErrorSkipsOnlyItsBranch ==
    ~failFast =>
        /\ mainPc # "raised"
        /\ \A t \in DOMAIN tpc : Status(t) # "raised"
        /\ mainPc = "done" =>
              /\ handled = ExpectedErrors
              /\ Present = Expected

\* a build without fail-fast has returned at concurrency above one, an error
\* was reported, a branch is missing and a sibling of that branch is present
C8_Witness ==
    /\ ~failFast
    /\ conc > 1
    /\ mainPc = "done"
    /\ handled # {}
    /\ \E x \in 1..m, y \in 1..m :
          /\ x # y
          /\ rparent[x] = rparent[y]
          /\ x \notin Present
          /\ y \in Present

\* C9: with fail-fast, no API call is started once an error has been reported
\* to the error handler, and a build in which an error was reported does not
\* return a tree
C9_FirstErrorAbortsBuild ==
    failFast =>
        /\ ~lateCall
        /\ mainPc = "done" => handled = {}

\* C12: every API call of a discovery is started after an acquire() of its
\* own on the rate limiter, whatever the concurrency, the source and the
\* loader
C12_EveryCallAfterAcquire == ~ungated

\* the tree of a discovery at concurrency 1: under every node its subgroups
\* in listing order, each created before the next is fetched, then its
\* projects in listing order
SequentialTree == [x \in 0..m |-> Subgroups(x) \o Projects(x)]

RecordedInWindow(reqs, now) ==
    Cardinality({i \in DOMAIN reqs : InsideWindow(reqs[i], now)})

\* C11: acquire returns only when fewer than max_requests timestamps are
\* recorded, all of them within the window that ends at the caller's `now`,
\* and it then records exactly one timestamp, its `now`; and after every step
\* the recorded timestamps within the trailing window of the clock are at
\* most max_requests
C11_WindowNeverExceedsLimit ==
    [][/\ RecordedInWindow(requests', clock') <= max_requests
       /\ \A t \in 1..callers :
             returned'[t] # returned[t] =>
                /\ returned'[t] = returned[t] + 1
                /\ RecordedInWindow(requests, lnow[t]) = Len(requests)
                /\ Len(requests) < max_requests
                /\ requests' = Append(requests, lnow[t])]_vars

\* the limit is full of unexpired requests, one caller sleeps at the limit
\* and another caller has been served
C11_Witness ==
    /\ callers > 1
    /\ Len(requests) = max_requests
    /\ RecordedInWindow(requests, clock) = max_requests
    /\ \E t \in 1..callers, u \in 1..callers :
          /\ t # u
          /\ lpc[t] = "sleep"
          /\ returned[u] > 0

(***************************************************************************)
(* The URL of a project node (SpecUrl).                                    *)
(***************************************************************************)

\* the credential 'gitlab-token:<token>@' occurs in the URL
HasCredential(url, token) ==
    \E i \in 1..Len(url) - 2 :
        url[i] = "gitlab-token:" /\ url[i + 1] = token /\ url[i + 2] = "@"

\* the token occurs in the URL
HasToken(url, token) == \E i \in 1..Len(url) : url[i] = token

\* C16: the URL of a project node created with a (non-empty) token: with HTTP
\* and hide_token it is the project's HTTP URL and holds no token; with HTTP
\* and without hide_token it holds 'gitlab-token:<token>@'; with SSH it is
\* the project's SSH URL and holds no token, whatever hide_token is
C16_TokenInUrlOnlyForHttpUnhidden ==
    (nodeUrl # << >> /\ urlCfg.token \notin {NoToken, ""}) =>
        /\ (urlCfg.method = "http" /\ urlCfg.hide_token) =>
              /\ nodeUrl = urlCfg.http_url
              /\ ~HasToken(nodeUrl, urlCfg.token)
        /\ (urlCfg.method = "http" /\ ~urlCfg.hide_token) =>
              HasCredential(nodeUrl, urlCfg.token)
        /\ urlCfg.method = "ssh" =>
              /\ nodeUrl = urlCfg.ssh_url
              /\ ~HasToken(nodeUrl, urlCfg.token)

\* a project node was created with HTTP, a token and hide_token
C16_Witness ==
    /\ nodeUrl # << >>
    /\ urlCfg.method = "http"
    /\ urlCfg.token \notin {NoToken, ""}
    /\ urlCfg.hide_token

(***************************************************************************)
(* One executed GitAction (SpecExec).                                      *)
(***************************************************************************)

\* execute has run to its end, or to the error of the git command it ran
Executed == xpc \in {"done", "GitlabberGitError"}

\* the positions of the log where the command is one of cmds
Ran(cmds) == { i \in 1..Len(gitLog) : gitLog[i].cmd \in cmds }

MirrorAsked == "mirror" \in request.keywords /\ request.mirror

\* C18: an action built with mirror=True is updated with fetch and never with
\* pull, even when use_fetch is False, and the action GitActionCollector
\* builds when it is given mirror=True has use_fetch=True
C18_MirrorImpliesFetch ==
    (MirrorAsked /\ xpc \notin {"off", "new"}) =>
        /\ xpc # "TypeError"
        /\ request.via = "GitActionCollector" => gitAction.use_fetch
        /\ Ran({"pull"}) = {}
        /\ (Executed /\ onDisk = "repo") => Ran({"fetch"}) = {1}

\* the strings of a list, joined by commas
RECURSIVE JoinCommas(_)
JoinCommas(list) ==
    IF Len(list) = 0 THEN << >>
    ELSE IF Len(list) = 1 THEN list[1]
    ELSE list[1] \o <<",">> \o JoinCommas(Tail(list))

\* list is string cut at its commas: joined again it is the string, and no
\* element holds a comma
IsSplitOf(list, string) ==
    /\ JoinCommas(list) = string
    /\ \A i \in 1..Len(list) : \A j \in 1..Len(list[i]) : list[i][j] # ","

\* C19: the option list of a clone is '--recursive' if the action is
\* recursive, then '--mirror' if and only if the mirror flag is set (use_fetch
\* alone gives a clone without '--mirror'), then the git_options string cut
\* at its commas; it is empty when no flag and no option is configured
C19_CloneOptions ==
    \A i \in Ran({"clone_from"}) :
        LET flags == (IF gitAction.recursive
                         THEN << <<"--recursive">> >> ELSE << >>)
                     \o (IF MirrorAsked THEN << <<"--mirror">> >> ELSE << >>)
            given == gitLog[i].multi_options
            rest == SubSeq(given, Len(flags) + 1, Len(given))
        IN  /\ Len(given) >= Len(flags)
            /\ SubSeq(given, 1, Len(flags)) = flags
            /\ IF Truthy(gitAction.git_options)
                  THEN IsSplitOf(rest, gitAction.git_options[1])
                  ELSE rest = << >>

(***************************************************************************)
(* Kinds and leaves (SpecBuild for the discovery, SpecFilter for the       *)
(* filtering).                                                             *)
(***************************************************************************)

\* Node.type of the node the discovery creates for entity e
BuiltType(e) == TypeOf(rparent, rproj, e)

\* the discovery has produced its tree: a node is a project iff it is a leaf
DiscoveredProjectIffLeaf ==
    mainPc = "done" =>
        \A e \in Present : BuiltType(e) = "project" <=> built[e] = << >>

\* no filter is running: a node below the root is a project iff it is a leaf
FilteredProjectIffLeaf ==
    filterPc # "running" =>
        \A x \in 1..n : Reachable(x) => (ntype[x] = "project" <=> IsLeaf(x))

\* C20 (as stated): in every tree the discovery produces, and after any
\* filtering of it, a node is a project if and only if it is a leaf
C20_ProjectIffLeaf == DiscoveredProjectIffLeaf /\ FilteredProjectIffLeaf

\* C20 (amended): in the tree under construction, in the tree the discovery
\* produces and during and after any filtering of it, a project node never
\* has children; a leaf may be a group or subgroup without children
C20_ProjectsAreLeaves ==
    /\ \A e \in Present : BuiltType(e) = "project" => built[e] = << >>
    /\ \A x \in 1..n :
          (Reachable(x) /\ ntype[x] = "project") => IsLeaf(x)

\* a discovery has returned a tree that holds a project and, as another
\* leaf, a group without children
C20_Witness ==
    /\ mainPc = "done"
    /\ \E p \in Present, g \in Present :
          /\ BuiltType(p) = "project"
          /\ built[p] = << >>
          /\ BuiltType(g) # "project"
          /\ built[g] = << >>

\* C30: an executed action whose node is not a project (a group or subgroup
\* left as a leaf) has run no git command at all: no clone, pull, fetch or
\* submodule update, whether or not its path is a valid repository
C30_NonProjectIsNoOp ==
    (Executed /\ gitAction.type # "project") => gitLog = << >>

(***************************************************************************)
(* Concurrent callers of the rate limiter (SpecLimiter).                   *)
(***************************************************************************)

\* the calls of acquire that have returned, over the threads 1..k
RECURSIVE ReturnedUpTo(_)
ReturnedUpTo(k) == IF k = 0 THEN 0 ELSE returned[k] + ReturnedUpTo(k - 1)

\* the threads that are inside acquire
InAcquire == {t \in 1..callers : lpc[t] # "idle"}

\* C25: as long as the calls of acquire made so far are at most max_requests
\* and no recorded request has left the window, no call waits at the limit
\* and the list holds exactly one timestamp for every call that returned,
\* whatever the interleaving of the callers
C25_NoRecordLost ==
    (/\ clock < window_seconds
     /\ ReturnedUpTo(callers) + Cardinality(InAcquire) <= max_requests) =>
        /\ Len(requests) = ReturnedUpTo(callers)
        /\ \A t \in 1..callers : lpc[t] # "sleep"

\* two threads have called acquire within the limit, both calls have
\* returned and both timestamps are recorded
C25_Witness ==
    /\ clock < window_seconds
    /\ callers = 2
    /\ returned = [t \in 1..callers |-> 1]
    /\ max_requests >= 2
    /\ Len(requests) = 2

\* C26: the timestamp list changes only in a step of a thread that holds the
\* mutex; a thread that sleeps at the limit does not hold the mutex, and a
\* thread that prunes, checks the limit or records holds it
C26_ListUnderMutexSleepWithout ==
    [][/\ requests' # requests =>
             \E t \in 1..callers : lock = t \/ (lock = 0 /\ lock' = t)
       /\ \A t \in 1..callers :
             /\ lpc'[t] = "sleep" => lock' # t
             /\ lpc'[t] = "check" => lock' = t]_vars

\* one caller sleeps at the limit while another caller has entered acquire
\* and holds the mutex
C26_Witness ==
    \E t \in 1..callers, u \in 1..callers :
        /\ lpc[t] = "sleep"
        /\ lpc[u] = "check"
        /\ lock = u

\* the calls of acquire that the threads 1..k can still make or finish
RECURSIVE RemainingUpTo(_)
RemainingUpTo(k) ==
    IF k = 0 THEN 0 ELSE (MaxAcquires - returned[k]) + RemainingUpTo(k - 1)

\* the clock can still advance by one window for every call that remains
EnoughTime == clock + window_seconds * RemainingUpTo(callers) <= MaxTime

\* C27: while the clock keeps advancing, a thread that is inside acquire
\* leaves it: a caller at the limit proceeds once the recorded requests have
\* left the window, also when other callers are served meanwhile
C27_EveryAcquireReturns ==
    \A t \in 1..MaxCallers :
        (t <= callers /\ lpc[t] # "idle" /\ EnoughTime)
            ~> (t <= callers => lpc[t] = "idle")

\* a caller sleeps at the limit with time left, after another caller has
\* been served all its calls
C27_Witness ==
    /\ EnoughTime
    /\ \E t \in 1..callers, u \in 1..callers :
          /\ t # u
          /\ lpc[t] = "sleep"
          /\ returned[u] = MaxAcquires

(***************************************************************************)
(* The leaves the filter leaves behind (SpecFilter).                       *)
(***************************************************************************)

\* the leaves still below the root that are included and not excluded
KeptLeaves ==
    {y \in 1..n : Reachable(y) /\ IsLeaf(y) /\ KeepAsStated(y)}

\* C28: after the filter returned, every leaf still below the root is
\* included and not excluded, and every other node still below the root, the
\* ones that fail keep among them, is an ancestor of such a leaf
C28_SurvivorsAreKeptLeavesAndTheirAncestors ==
    Filtered =>
        \A x \in 1..n :
            Reachable(x) =>
                IF IsLeaf(x) THEN x \in KeptLeaves
                ELSE \E y \in KeptLeaves : x \in AncSelf(parent, y)

\* the filter detached a node and left a node that fails keep above a leaf
\* that satisfies it
C28_Witness ==
    /\ Filtered
    /\ \E d \in 1..n : parent[d] = Detached
    /\ \E x \in 1..n, y \in KeptLeaves :
          /\ x # y
          /\ Reachable(x)
          /\ ~KeepAsStated(x)
          /\ x \in AncSelf(parent, y)

(***************************************************************************)
(* The batch of git actions (SpecSync).                                    *)
(***************************************************************************)

\* the actions whose clone or pull has raised
FailedActions ==
    {i \in 1..Len(actions) : outcome[i] \notin {"pending", "ok"}}

\* the actions that wait in the executor's queue
Queued == {queue[k] : k \in 1..Len(queue)}

\* C23: once a git action has failed, every other collected action is still
\* in the queue, running or finished while the pool works, and when sync()
\* has returned every action has been run, once, to its end; for every pool
\* size and every position of the failing action
C23_FailureDoesNotAbortBatch ==
    FailedActions # {} =>
        /\ syncPc = "wait" =>
              \A j \in 1..Len(actions) :
                  outcome[j] = "pending" => (j \in Queued \/ j \in running)
        /\ syncPc = "returned" =>
              \A j \in 1..Len(actions) :
                  execs[j] = 1 /\ outcome[j] # "pending"

\* with one worker the first action of the batch failed and the second one
\* was run after it, to its end
C23_Witness ==
    /\ syncPc = "returned"
    /\ W = 1
    /\ Len(actions) >= 2
    /\ outcome[1] = "GitlabberGitError"
    /\ outcome[2] = "ok"
    /\ execs[2] = 1

\* C24: when the first action is handed to the pool, and from then on, the
\* destination directory of every node of the tree exists, so an action
\* that a worker has started finds the directory of its node and of every
\* ancestor of that node
C24_DirectoriesBeforeDispatch ==
    /\ syncPc \in {"wait", "returned"} =>
          \A x \in 1..n : Reachable(x) => rpath[x] \in dirs
    /\ \A i \in 1..Len(actions) :
          execs[i] >= 1 =>
              \A a \in AncSelf(parent, actions[i]) : rpath[a] \in dirs

\* a worker runs the action of a project below a group while the tree also
\* holds a group without children, and the directories of all of them exist
C24_Witness ==
    /\ syncPc = "wait"
    /\ \E i \in running :
          /\ ntype[actions[i]] = "project"
          /\ rpath[actions[i]] \in dirs
          /\ rpath[parent[actions[i]]] \in dirs
    /\ \E g \in LeavesBelowRoot : ntype[g] # "project" /\ rpath[g] \in dirs

\* C29: no two collected actions have the same destination path, and so no
\* two actions that workers run at the same time have the same path, also
\* when sibling nodes carry the same name
C29_DistinctDestinationPaths ==
    \A i \in 1..Len(actions), j \in 1..Len(actions) :
        i # j => rpath[actions[i]] # rpath[actions[j]]

(***************************************************************************)
(* The threads of a discovery (SpecBuild).                                 *)
(***************************************************************************)

\* get_subgroups or get_projects of entity t[2] runs in a thread whose next
\* step is its API call: subgroups.list, projects.list, or groups.get of
\* the sequential loop
AtApiCall(t) ==
    \/ t[1] \in {"GS", "GP"} /\ tpc[t] = "run"
    \/ /\ t[1] = "GS"
       /\ tpc[t] = "seq"
       /\ gsIdx[t[2]] <= Len(Subgroups(t[2]))

\* the work items of the fetch pool of get_subgroups(e) that its workers
\* run at the same time, each one a groups.get
FetchesOf(e) ==
    LET waiting == {t \in Submitted("FD", e) : tpc[t] = "queued"}
        workers == IF conc < Len(Subgroups(e)) THEN conc ELSE Len(Subgroups(e))
    IN  IF Cardinality(waiting) < workers THEN Cardinality(waiting) ELSE workers

RECURSIVE FetchesUpTo(_)
FetchesUpTo(k) == IF k = 0 THEN 0 ELSE FetchesOf(k) + FetchesUpTo(k - 1)

\* the API calls of the discovery that are in progress at the same time
CallsInProgress ==
    Cardinality({t \in DOMAIN tpc : AtApiCall(t)}) + FetchesUpTo(m)

\* C22: the discovery API calls in progress at the same time are never more
\* than api_concurrency, whatever the depth and the width of the hierarchy
C22_CallsInProgressBounded == CallsInProgress <= conc

\* the threads whose next step attaches a child to node x: the workers of a
\* pool that can take a queued _process_group/_process_subgroup of a child
\* of x, the thread that has called one, and the thread of get_projects(x)
\* when the listing has projects
AppendersTo(x) ==
    LET ofX == {t \in DOMAIN tpc : t[1] = "P" /\ rparent[t[2]] = x}
        queued == {t \in ofX : tpc[t] = "queued"}
        free == IF queued = {} THEN 0
                ELSE PoolSize(CHOOSE t \in queued : TRUE)
                     - Cardinality({t \in ofX : Busy(t)})
        fromPool == IF Cardinality(queued) < free
                       THEN Cardinality(queued) ELSE free
        called == Cardinality({t \in ofX : tpc[t] = "run"})
        listing == IF x # Root /\ tpc[<<"GP", x>>] = "run"
                      /\ <<"projlist", x>> \notin failing
                      /\ Projects(x) # << >>
                      THEN 1 ELSE 0
    IN  fromPool + called + listing

\* C21: no two threads are about to attach a child to the same node at the
\* same time, the root and a group that is being expanded included
C21_OneThreadPerParent == \A x \in 0..m : AppendersTo(x) <= 1
====
